---- MODULE Spec2Model ----
\* Model of src/lib/message-extensions/fast-univariate-lagrange.ts:
\* the O(n) evaluation of the univariate Lagrange extension of an ASCII
\* message over a prime field, with its two helpers.
EXTENDS Integers, Sequences, FiniteSets, TLC

\* ---------------------------------------------------------------- bounds

\* Longest message drawn as an input; kept below FieldOrder, as a string's
\* length is always below the order of the o1js field.
MaxLen == 3

\* Index of the field modulus in PrimeTable.
FieldIdx == 2

\* Small prime moduli standing in for the o1js base field order.
PrimeTable == <<5, 7, 11, 13>>

\* The message alphabet drawn from.
Symbols == {"A", "B", "Z"}

\* ---------------------------------------------------- field arithmetic

\* Field.ORDER of the imported Field type.
FieldOrder == PrimeTable[FieldIdx]

FieldElements == 0 .. (FieldOrder - 1)

\* Field(x) / toFp(x): an integer (negative ones included) reduced into the field.
Field(x) == x % FieldOrder

add(x, y) == (x + Field(y)) % FieldOrder

sub(x, y) == (x - Field(y)) % FieldOrder

mul(x, y) == (x * Field(y)) % FieldOrder

\* Field.inv for a non-zero element.
inv(y) == CHOOSE z \in FieldElements : (z * y) % FieldOrder = 1

\* Field.div for a non-zero divisor: multiplication by the inverse.
div(x, y) == mul(x, inv(Field(y)))

lessThan(x, y) == x < Field(y)

lessThanOrEqual(x, y) == x <= Field(y)

greaterThanOrEqual(x, y) == x >= Field(y)

\* asciiToNumber of ../util.ts: the character code of a one-character string.
asciiToNumber(c) ==
  CASE c = "A" -> 65
    [] c = "B" -> 66
    [] c = "Z" -> 90

\* ------------------------------------------------------ results of calls

Returned(v, ds) == [threw |-> "", value |-> <<v>>, divisors |-> ds]

Thrown(e, ds) == [threw |-> e, value |-> <<>>, divisors |-> ds]

\* ------------------------------------- getNextLagrangeBasisPolynomialAtInput

\* if (i < 1)
InvalidIndex(ii) == ii < 1

\* r.greaterThanOrEqual(0) && r.lessThanOrEqual(n - 1)
InDomainRangeLoose(rr, nn) == greaterThanOrEqual(rr, 0) /\ lessThan(rr, nn - 1)

InDomainRange(rr, nn) == greaterThanOrEqual(rr, 0) /\ lessThanOrEqual(rr, nn - 1)

\* previousLagrangeBasis.mul(r.sub(i - 1)).mul(-1 * (n - i))
RecurrenceNumeratorNoSign(ii, nn, rr, prev) == mul(mul(prev, sub(rr, ii - 1)), nn - ii)

RecurrenceNumeratorSameFactor(ii, nn, rr, prev) == mul(mul(prev, sub(rr, ii)), -1 * (nn - ii))

RecurrenceNumerator(ii, nn, rr, prev) == mul(mul(prev, sub(rr, ii - 1)), -1 * (nn - ii))

getNextLagrangeBasisPolynomialAtInput(ii, nn, rr, prev) ==
  IF InvalidIndex(ii) THEN Thrown("InvalidIndex", <<>>)
  ELSE IF InDomainRange(rr, nn) THEN Thrown("DomainPoint", <<>>)
  ELSE LET num == RecurrenceNumerator(ii, nn, rr, prev)
           d1  == sub(rr, ii)
           d2  == Field(ii)
       IN  IF d1 = 0 THEN Thrown("DivisionByZero", <<d1>>)
           ELSE IF d2 = 0 THEN Thrown("DivisionByZero", <<d1, d2>>)
           ELSE Returned(div(div(num, d1), d2), <<d1, d2>>)

\* ------------------------------------------------------ getLagrangeBasisAt

\* if (i !== j)
SkipsNothing(ii, jj) == TRUE

IsOtherPoint(ii, jj) == ii # jj

\* r.sub(interpolatingSet[j])
BasisFactorNumeratorSwapped(rr, xj) == sub(xj, rr)

BasisFactorNumerator(rr, xj) == sub(rr, xj)

\* The loop over j, from index jj on, with the running product acc and the
\* divisors used so far; set is 1-indexed, set[j + 1] is interpolatingSet[j].
RECURSIVE BasisLoop(_, _, _, _, _, _)
BasisLoop(ii, set, rr, jj, acc, ds) ==
  IF jj >= Len(set) THEN Returned(acc, ds)
  ELSE IF IsOtherPoint(ii, jj)
       THEN LET d == sub(set[ii + 1], set[jj + 1])
            IN  IF d = 0 THEN Thrown("DivisionByZero", Append(ds, d))
                ELSE BasisLoop(ii, set, rr, jj + 1,
                               div(mul(acc, BasisFactorNumerator(rr, set[jj + 1])), d),
                               Append(ds, d))
       ELSE BasisLoop(ii, set, rr, jj + 1, acc, ds)

getLagrangeBasisAt(ii, set, rr) == BasisLoop(ii, set, rr, 0, Field(1), <<>>)

\* ------------------------------------------------ getFastUnivariateLagrange

VARIABLES
  message,               \* the message argument, a sequence of symbols
  r,                     \* the evaluation point argument
  pc,                    \* position in getFastUnivariateLagrange
  result,                \* accumulator
  interpolatingSet,      \* Field(0) .. Field(n - 1)
  currentLagrangeBasis,  \* running basis value
  i,                     \* loop index
  returned,              \* <<v>> once a value is returned, <<>> before
  error,                 \* the error thrown, "" if none
  calls,                 \* history: helper calls made, in order
  divisors,              \* history: every divisor handed to Field.div
  terms,                 \* history: the basis value used by each accumulated term
  args,                  \* arguments of a direct call of the recurrence
  out                    \* outcome of that direct call

vars == <<message, r, pc, result, interpolatingSet, currentLagrangeBasis, i,
          returned, error, calls, divisors, terms, args, out>>

\* const n = message.length
n == Len(message)

Messages == UNION {[1 .. k -> Symbols] : k \in 0 .. MaxLen}

NoArgs == [i |-> 0, n |-> 0, r |-> 0, previousLagrangeBasis |-> 0]

NoOut == [threw |-> "", value |-> <<>>, divisors |-> <<>>]

Init ==
  /\ message \in Messages
  /\ r \in FieldElements
  /\ pc = "entry"
  /\ result = 0
  /\ interpolatingSet = <<>>
  /\ currentLagrangeBasis = 0
  /\ i = 0
  /\ returned = <<>>
  /\ error = ""
  /\ calls = <<>>
  /\ divisors = <<>>
  /\ terms = <<>>
  /\ args = NoArgs
  /\ out = NoOut

\* if (n === 0)
IsEmptyNever(nn) == nn < 0

IsEmptyMessage(nn) == nn = 0

\* if (r.lessThan(n).toBoolean())
DomainShortCircuitLoose(rr, nn) == lessThan(rr, nn - 1)

DomainShortCircuit(rr, nn) == lessThan(rr, nn)

\* Field(asciiToNumber(message[Number(r.toBigInt())]))
DomainValueFirst(msg, rr) == Field(asciiToNumber(msg[1]))

DomainValue(msg, rr) == Field(asciiToNumber(msg[rr + 1]))

\* if (i < n - 1)
HasNextTermInclusive(ii, nn) == ii < nn

HasNextTermShort(ii, nn) == ii < nn - 2

HasNextTerm(ii, nn) == ii < nn - 1

Entry ==
  /\ pc = "entry"
  /\ IF IsEmptyMessage(n)
     THEN pc' = "threw" /\ error' = "EmptyMessage"
     ELSE pc' = "guard" /\ error' = error
  /\ UNCHANGED <<message, r, result, interpolatingSet, currentLagrangeBasis, i,
                 returned, calls, divisors, terms, args, out>>

Guard ==
  /\ pc = "guard"
  /\ IF DomainShortCircuit(r, n)
     THEN /\ returned' = <<DomainValue(message, r)>>
          /\ pc' = "returned"
          /\ UNCHANGED <<result, interpolatingSet>>
     ELSE /\ result' = Field(0)
          /\ interpolatingSet' = [index \in 1 .. n |-> Field(index - 1)]
          /\ pc' = "seed"
          /\ UNCHANGED returned
  /\ UNCHANGED <<message, r, currentLagrangeBasis, i, error, calls, divisors,
                 terms, args, out>>

Seed ==
  /\ pc = "seed"
  /\ LET o == getLagrangeBasisAt(0, interpolatingSet, r)
     IN  /\ calls' = Append(calls, [fn |-> "getLagrangeBasisAt", i |-> 0,
                                    previous |-> <<>>, out |-> o.value])
         /\ divisors' = divisors \o o.divisors
         /\ IF o.threw # ""
            THEN pc' = "threw" /\ error' = o.threw
                 /\ UNCHANGED <<currentLagrangeBasis, i>>
            ELSE pc' = "loop" /\ error' = error
                 /\ currentLagrangeBasis' = o.value[1] /\ i' = 0
  /\ UNCHANGED <<message, r, result, interpolatingSet, returned, terms, args, out>>

Accumulate ==
  /\ pc = "loop"
  /\ i < n
  /\ LET coefficient == Field(asciiToNumber(message[i + 1]))
     IN  result' = add(result, mul(coefficient, currentLagrangeBasis))
  /\ terms' = Append(terms, currentLagrangeBasis)
  /\ pc' = "advance"
  /\ UNCHANGED <<message, r, interpolatingSet, currentLagrangeBasis, i, returned,
                 error, calls, divisors, args, out>>

Advance ==
  /\ pc = "advance"
  /\ IF HasNextTerm(i, n)
     THEN LET o == getNextLagrangeBasisPolynomialAtInput(i + 1, n, r, currentLagrangeBasis)
          IN  /\ calls' = Append(calls,
                     [fn |-> "getNextLagrangeBasisPolynomialAtInput", i |-> i + 1,
                      previous |-> <<currentLagrangeBasis>>, out |-> o.value])
              /\ divisors' = divisors \o o.divisors
              /\ IF o.threw # ""
                 THEN pc' = "threw" /\ error' = o.threw
                      /\ UNCHANGED <<currentLagrangeBasis, i>>
                 ELSE pc' = "loop" /\ error' = error
                      /\ currentLagrangeBasis' = o.value[1] /\ i' = i + 1
     ELSE /\ pc' = "loop" /\ i' = i + 1
          /\ UNCHANGED <<currentLagrangeBasis, error, calls, divisors>>
  /\ UNCHANGED <<message, r, result, interpolatingSet, returned, terms, args, out>>

Return ==
  /\ pc = "loop"
  /\ ~(i < n)
  /\ returned' = <<result>>
  /\ pc' = "returned"
  /\ UNCHANGED <<message, r, result, interpolatingSet, currentLagrangeBasis, i,
                 error, calls, divisors, terms, args, out>>

Next == Entry \/ Guard \/ Seed \/ Accumulate \/ Advance \/ Return

Spec == Init /\ [][Next]_vars

\* ------------------------------- the recurrence called directly, any input

InitNext ==
  /\ message = <<>>
  /\ r = 0
  /\ pc = "call"
  /\ result = 0
  /\ interpolatingSet = <<>>
  /\ currentLagrangeBasis = 0
  /\ i = 0
  /\ returned = <<>>
  /\ error = ""
  /\ calls = <<>>
  /\ divisors = <<>>
  /\ terms = <<>>
  /\ args \in [i : (-1) .. MaxLen, n : 0 .. MaxLen, r : FieldElements,
               previousLagrangeBasis : FieldElements]
  /\ out = NoOut

CallNext ==
  /\ pc = "call"
  /\ out' = getNextLagrangeBasisPolynomialAtInput(args.i, args.n, args.r,
                                                   args.previousLagrangeBasis)
  /\ pc' = "called"
  /\ UNCHANGED <<message, r, result, interpolatingSet, currentLagrangeBasis, i,
                 returned, error, calls, divisors, terms, args>>

SpecNext == InitNext /\ [][CallNext]_vars

\* ------------------------------------------------ reference definitions

\* code(symbol): the field element of a symbol's character code.
code(c) == Field(asciiToNumber(c))

RECURSIVE ProdSeq(_)
ProdSeq(s) == IF s = <<>> THEN 1 ELSE (Head(s) * ProdSeq(Tail(s))) % FieldOrder

RECURSIVE SumSeq(_)
SumSeq(s) == IF s = <<>> THEN 0 ELSE (Head(s) + SumSeq(Tail(s))) % FieldOrder

\* The domain points 0 .. nn-1 other than k, in order.
OtherPoints(k, nn) == SelectSeq([m \in 1 .. nn |-> m - 1], LAMBDA x : x # k)

\* L_k(rr) by the product definition over {0 .. nn-1}:
\* (product of (rr - j)) / (product of (k - j)), j # k.
DirectBasis(k, nn, rr) ==
  LET js  == OtherPoints(k, nn)
      num == ProdSeq([m \in 1 .. Len(js) |-> (rr - js[m]) % FieldOrder])
      den == ProdSeq([m \in 1 .. Len(js) |-> (k - js[m]) % FieldOrder])
  IN  (num * inv(den)) % FieldOrder

\* The O(n^2) reference P(rr) = sum of c_k * L_k(rr).
ReferenceP(msg, rr) ==
  SumSeq([k \in 1 .. Len(msg) |-> (code(msg[k]) * DirectBasis(k - 1, Len(msg), rr)) % FieldOrder])

RecurrenceName == "getNextLagrangeBasisPolynomialAtInput"

RecurrenceCalls == SelectSeq(calls, LAMBDA c : c.fn = RecurrenceName)

BaseCaseCalls == SelectSeq(calls, LAMBDA c : c.fn = "getLagrangeBasisAt")

\* ----------------------------------------------------------------- claims

\* C1: for a message of length n >= 1 and an evaluation point r with
\* 0 <= r < n, the evaluator does not fail and returns exactly
\* code(message[r]), from the short-circuit (no helper was called, no term
\* was accumulated).
C1_DomainPointReturnsSymbolCode ==
  (n >= 1 /\ r < n) =>
    /\ pc \in {"entry", "guard", "returned"}
    /\ error = ""
    /\ calls = <<>> /\ terms = <<>> /\ divisors = <<>>
    /\ pc = "returned" => returned = <<code(message[r + 1])>>

C1_Witness ==
  pc = "returned" /\ n = 3 /\ r = 2 /\ returned = <<code(message[3])>>
  /\ message[3] # message[1]

\* C2: for a non-empty message and r outside [0, n) the evaluator does not
\* fail and returns the value of the O(n^2) reference definition in the same
\* field; "AB" at r = 2 gives the field element 67.
C2_OffDomainMatchesReference ==
  (n >= 1 /\ ~(r < n)) =>
    /\ error = "" /\ pc # "threw"
    /\ pc = "returned" => returned = <<ReferenceP(message, r)>>
    /\ (pc = "returned" /\ message = <<"A", "B">> /\ r = 2) => returned = <<Field(67)>>

C2_Witness ==
  pc = "returned" /\ message = <<"A", "B">> /\ r = 2 /\ returned = <<Field(67)>>
  /\ Len(calls) = 2

\* C3: on the empty message, for any r, the evaluator fails with the
\* empty-message error straight from its entry: the short-circuit test is
\* never reached, no basis value is computed and nothing is returned.
C3_EmptyMessageFailsFirst ==
  n = 0 =>
    /\ pc \in {"entry", "threw"}
    /\ pc = "threw" => error = "EmptyMessage"
    /\ returned = <<>> /\ calls = <<>> /\ terms = <<>> /\ divisors = <<>>
    /\ interpolatingSet = <<>>

C3_Witness == n = 0 /\ r = 0 /\ pc = "threw" /\ error = "EmptyMessage"

\* C4: for a one-symbol message [x] and any r, the evaluator does not fail
\* and returns code(x); a base-case value, when computed, is 1, and the
\* recurrence is never called.
C4_SingleSymbolIsConstant ==
  n = 1 =>
    /\ error = "" /\ pc # "threw"
    /\ pc = "returned" => returned = <<code(message[1])>>
    /\ RecurrenceCalls = <<>>
    /\ \A k \in 1 .. Len(calls) : calls[k].out = <<Field(1)>>
    /\ \A k \in 1 .. Len(terms) : terms[k] = Field(1)

C4_Witness ==
  n = 1 /\ r = 5 /\ pc = "returned" /\ returned = <<code(message[1])>>
  /\ Len(calls) = 1 /\ terms = <<Field(1)>>

\* C5: partition of unity: when a sweep has run to the end, it used n basis
\* values and their sum is the field element 1.
C5_PartitionOfUnity ==
  (pc = "returned" /\ calls # <<>>) =>
    Len(terms) = n /\ SumSeq(terms) = Field(1)

C5_Witness ==
  pc = "returned" /\ n = 3 /\ Len(terms) = 3 /\ SumSeq(terms) = Field(1)
  /\ terms[1] # terms[2]

\* C6: for a non-empty message shorter than the field modulus and any r, no
\* division has a zero divisor: Field.div never fails, every divisor handed
\* to it is non-zero, the base case divides by x_0 - x_j and the recurrence
\* step i by r - i and by i.
C6_NoZeroDivisor ==
  (n >= 1 /\ n < FieldOrder) =>
    /\ error # "DivisionByZero"
    /\ \A k \in 1 .. Len(divisors) : divisors[k] # 0
    /\ pc \in {"loop", "advance", "returned"} /\ calls # <<>> =>
         /\ Len(divisors) = (n - 1) + 2 * Len(RecurrenceCalls)
         /\ \A j \in 1 .. (n - 1) : divisors[j] = Field(0 - j)
         /\ \A k \in 1 .. Len(RecurrenceCalls) :
              /\ divisors[(n - 1) + 2 * k - 1] = Field(r - k)
              /\ divisors[(n - 1) + 2 * k] = Field(k)

C6_Witness ==
  pc = "returned" /\ n = 3 /\ Len(divisors) = 6 /\ r = FieldOrder - 1

\* C7: for a non-empty message and any r the evaluator never raises the
\* recurrence's invalid-index or domain-point error: each call of the
\* recurrence has i >= 1 and r outside [0, n-1].
C7_RecurrenceGuardsNeverTrip ==
  n >= 1 =>
    /\ error \notin {"InvalidIndex", "DomainPoint"}
    /\ \A k \in 1 .. Len(calls) :
         calls[k].fn = RecurrenceName =>
           calls[k].i >= 1 /\ ~(0 <= r /\ r <= n - 1) /\ calls[k].out # <<>>

C7_Witness ==
  pc = "returned" /\ n = 3 /\ r = 3 /\ Len(RecurrenceCalls) = 2

\* C8: the recurrence called with i < 1 fails with the invalid-index error,
\* and called with i >= 1 and r in [0, n-1] fails with the domain-point
\* error; either way it returns no value and attempts no division.
C8_RecurrencePreconditions ==
  pc = "called" =>
    /\ args.i < 1 => out = [threw |-> "InvalidIndex", value |-> <<>>, divisors |-> <<>>]
    /\ (args.i >= 1 /\ 0 <= args.r /\ args.r <= args.n - 1) =>
         out = [threw |-> "DomainPoint", value |-> <<>>, divisors |-> <<>>]

C8_Witness ==
  pc = "called" /\ args.i = 2 /\ args.n = 3 /\ args.r = 2
  /\ out.threw = "DomainPoint" /\ out.value = <<>>

\* C9: loop invariant of the sweep: the basis value held when the term of
\* index i is added is L_i(r) by the product definition, so each recurrence
\* step maps the product-definition L_(i-1)(r) to the product-definition
\* L_i(r); the term of index i is added before the basis value is advanced
\* to i + 1.
C9_SweepHoldsDirectBasis ==
  /\ (pc = "loop" /\ i < n) =>
       /\ currentLagrangeBasis = DirectBasis(i, n, r)
       /\ Len(terms) = i /\ Len(RecurrenceCalls) = i
  /\ pc = "advance" =>
       /\ Len(terms) = i + 1 /\ Len(RecurrenceCalls) = i
       /\ currentLagrangeBasis = DirectBasis(i, n, r)
  /\ \A k \in 1 .. Len(terms) : terms[k] = DirectBasis(k - 1, n, r)
  /\ \A k \in 1 .. Len(RecurrenceCalls) :
       /\ RecurrenceCalls[k].previous = <<DirectBasis(k - 1, n, r)>>
       /\ RecurrenceCalls[k].out = <<DirectBasis(k, n, r)>>

C9_Witness ==
  pc = "advance" /\ n = 3 /\ i = 2 /\ Len(terms) = 3
  /\ terms[3] = DirectBasis(2, 3, r) /\ terms[3] # terms[2]

\* The helper calls made so far are the base case for index 0 followed by
\* recurrence calls with i = 1, 2, ... each fed the previous call's value.
CallsAreSeedThenRecurrence ==
  \A k \in 1 .. Len(calls) :
    IF k = 1
    THEN calls[k].fn = "getLagrangeBasisAt" /\ calls[k].i = 0
    ELSE /\ calls[k].fn = RecurrenceName
         /\ calls[k].i = k - 1
         /\ calls[k].previous = calls[k - 1].out

\* C10 as stated: every evaluator call that returns has used the base case
\* exactly once, for index 0 and first, and then the recurrence exactly
\* n - 1 times with i = 1 .. n-1 in order.
C10_Original ==
  pc = "returned" =>
    /\ Len(BaseCaseCalls) = 1
    /\ Len(RecurrenceCalls) = n - 1
    /\ CallsAreSeedThenRecurrence

\* C10 amended: an evaluator call that gets past the empty-message check and
\* the domain short-circuit uses the base case exactly once, for index 0 and
\* before any recurrence step, and then the recurrence exactly n - 1 times
\* with i = 1 .. n-1 in order, each fed the previous value; a call that fails
\* on the empty message or returns from the short-circuit uses neither.
C10_SeedOnceThenRecurrence ==
  /\ CallsAreSeedThenRecurrence
  /\ pc = "returned" =>
       IF r < n
       THEN calls = <<>>
       ELSE Len(BaseCaseCalls) = 1 /\ Len(RecurrenceCalls) = n - 1
  /\ pc = "threw" => calls = <<>>
  /\ pc \in {"loop", "advance"} =>
       Len(BaseCaseCalls) = 1 /\ Len(RecurrenceCalls) = (IF i < n THEN i ELSE n - 1)

C10_Witness ==
  pc = "returned" /\ n = 3 /\ ~(r < n) /\ Len(calls) = 3
  /\ calls[3].i = 2 /\ calls[3].previous = calls[2].out

====
